---- MODULE Spec2Model ----
(***************************************************************************)
(* Model of wikipedia-to-wikidata.user.js: the URL edit page flow           *)
(* (runOnURLEditPage, fixLinkURLEdit, handleRelationshipDialog and the two  *)
(* wait primitives as they are used there) and the rate limiter            *)
(* (rateLimitedQueue, rateLimit).                                          *)
(*                                                                         *)
(* The page (DOM) is owned by the site: which elements exist, whether a    *)
(* dialog opens after an edit click and whether it closes after a commit   *)
(* click are choices of the environment.  An element the script looks up   *)
(* once is chosen when it is looked up and the answer is kept.  A          *)
(* MutationObserver callback runs in the microtask that follows the        *)
(* mutation, before any timer task, so an environment action that changes  *)
(* the page also resolves the waiter subscribed at that moment.            *)
(*                                                                         *)
(* Spec        a run on the URL edit page                                  *)
(* SpecRL      rateLimit with measured start times                         *)
(* SpecRLFair  rateLimit under fairness: timers fire, operations settle    *)
(* SpecResolve calls of getWikidataUrlFromWikipedia, request by request    *)
(* SpecWait    one call of waitForElement or waitForElementRemoval with    *)
(*             its observer, its queued records and its timer              *)
(* SpecFair    Spec under fairness of the script's own steps               *)
(* SpecInline  one row of the inline external links editor                 *)
(*             (fixLinkOnNonURLPage, addFixerUpperButton, runUserscript)   *)
(***************************************************************************)
EXTENDS Integers, Sequences, FiniteSets, TLC

\* ------------------------------------------------------------ bounds
MaxItems == 2
MaxLanes == 2
MaxInterval == 2
MaxOps == 3
MaxTime == 4
MaxCalls == 2
MaxId == 2
MaxTimeout == 2
MaxMutations == 3
MaxTriggers == 3
MaxHrefs == 2

VARIABLES
    \* the page, owned by the site
    urlInputExists,      \* input#id-edit-url.url exists
    urlForm,             \* shape of the value of the URL input
    pendingMarker,       \* "none" | "hidden" (not rendered yet) | "shown"
    editorExists,        \* #relationship-editor
    rows,                \* tr.wikipedia-page-for: number of .relationship-item per row
    dialog,              \* item whose #edit-relationship-dialog is present, 0 = none
    dialogHasDone,       \* the dialog present has a "Done" button
    doneClicked,         \* the Done button of the dialog present has been clicked
    requested,           \* items whose edit control was clicked, dialog not opened yet
    \* elements as the script found them: "unqueried" | "found" | "null"
    editNoteInput,       \* line 184
    editButton,          \* item -> line 591
    removeButton,        \* item -> line 676
    makeVotableCheckbox, \* line 644
    submitButton,        \* lines 654 and 703
    \* runOnURLEditPage / fixLinkURLEdit / handleRelationshipDialog
    pc,
    hasPendingEdits,
    convertButton,       \* "absent" | "enabled" | "disabled"
    conversionSuccessful,
    allRelationshipsHandled,
    relationshipsProcessedCount,
    totalRelationshipsToProcess,
    relationshipsSuccessfullyRemoved,
    r,                   \* index of the current row (outer for loop)
    k,                   \* index of the current item in the row (inner for loop)
    dialogElement,       \* line 596: item whose dialog the waiter returned, 0 = none
    dialogElementHasDone,
    wikidataOption,      \* line 511: an option with an accepted label was found
    doneButton,          \* line 555: "unqueried" | "found" | "null"
    errorShown,          \* message shown by displayError
    thrown,              \* the error on its way to the catch block of line 636
    \* what has been done to the page and to the network
    runs,                \* calls of fixLinkURLEdit
    lookupCalls,         \* GM_xmlhttpRequest calls
    lookupOk,            \* getWikidataUrlFromWikipedia returned a URL
    editClicks,          \* item -> clicks of its edit control
    removeClicks,        \* item -> clicks of its remove control
    commitClicks,        \* clicks of a Done button
    submitClicks,
    votableChecked,
    votableAtSubmit,     \* the checkbox was checked when submit was clicked
    outcome,             \* item -> "Pending" | "Converted" | "Removed" | "Failed"
    lastItem,            \* the item whose dialog was handled last, 0 = none
    staleAtClick,        \* an edit control was clicked while a dialog was present
    staleHandled,        \* the dialog handled for an item was another item's
    recoveryClicks,      \* item -> clicks of a Done button in its catch block (line 608)
    \* rateLimit / rateLimitedQueue
    requestsPerInterval,
    interval,
    now,
    queueIndex,
    laneBusy,            \* lane -> the delay at the tail of its chain is running
    laneElapsed,         \* lane -> time since that delay started
    laneWaiting,         \* lane -> operations chained behind the delay
    submitted,           \* operations in submission order: [lane, at]
    opStart,             \* operation -> its start time, -1 = not started
    opRuns,              \* operation -> times it was invoked (line 94)
    opResult,            \* operation -> "waiting" | "running" | "value" | "failure"
    settled,             \* call -> [of, kind]: how the promise of line 96 settled
    \* getWikidataUrlFromWikipedia, one entry per call
    wikipediaUrl,        \* call -> its argument: [form, id]
    resolvePc,           \* call -> "fetching" | "returned" | "thrown"
    queries,             \* call -> GM_xmlhttpRequest calls it made
    queryAt,             \* call -> when it made the last of them, -1 = never
    response,            \* call -> what fetchURL was answered, "none" before
    resolveResult,       \* call -> the URL returned or the message of the error thrown
    \* waitForElement / waitForElementRemoval, one call
    waitKind,            \* "none" | "appearance" | "removal"
    waitTimeout,         \* its timeout argument
    matches,             \* qs(selector, parent) finds an element
    heldBy,              \* how the element came to match or to match no more:
                         \* "call" | "childList" | "attributes"
    observing,           \* the MutationObserver is connected
    records,             \* mutation records are queued, the callback has not run yet
    timer,               \* "none" | "armed" | "fired" | "cleared"
    waitElapsed,         \* time since the call, up to the timeout
    promise,             \* "none" | "pending" | "resolved" | "rejected"
    resolveCalls,        \* calls of resolve
    rejectCalls,         \* calls of reject
    lateCallbacks,       \* callbacks run after the promise had settled
    mutations,           \* changes made to the page since the call
    heldAtCall,          \* the element matched when the function was called
    cameToHold,          \* the element came to match before the timeout elapsed
    timeoutHeld,         \* at the rejection: "no" or how the element had come to match
    \* one row of the inline external links editor
    urlElement,          \* the row shows its a.url element
    href,                \* the Wikipedia URL of that element
    oldLink,             \* attribute oldLink of the row, 0 = not set
    newLink,             \* attribute newLink of the row: the URL whose Wikidata
                         \* URL it holds, 0 = not set
    fixerUpperButton,    \* "absent" | "enabled" | "disabled"
    observers,           \* call of fixLinkOnNonURLPage -> its observer is connected
    lookupFor,           \* call -> the URL it asked the lookup for, 0 = none
    lookupState,         \* call -> "none" | "inflight" | "resolved" | "rejected"
    editItemClicks,      \* clicks on the row's button.edit-item
    rawUrl,              \* what was last written into the dialog's raw-url input
    inlineError,         \* displayError has shown a message in the row
    cleared              \* the a.url element was removed since the last call

sitePage == <<urlInputExists, editorExists, rows>>
dialogVars == <<dialog, dialogHasDone, doneClicked, requested>>
foundVars == <<editNoteInput, editButton, removeButton, makeVotableCheckbox,
               submitButton>>
pageVars == <<sitePage, urlForm, pendingMarker, dialogVars, foundVars>>
loopVars == <<relationshipsProcessedCount, totalRelationshipsToProcess, r, k>>
handlerVars == <<dialogElement, dialogElementHasDone, wikidataOption, doneButton>>
flagVars == <<hasPendingEdits, convertButton, conversionSuccessful,
              allRelationshipsHandled, relationshipsSuccessfullyRemoved, errorShown,
              thrown>>
netVars == <<runs, lookupCalls, lookupOk>>
clickVars == <<editClicks, removeClicks, commitClicks, submitClicks, votableChecked,
               votableAtSubmit>>
itemVars == <<outcome, lastItem, staleAtClick, staleHandled, recoveryClicks>>
orchVars == <<pageVars, pc, loopVars, handlerVars, flagVars, netVars, clickVars,
              itemVars>>
rlVars == <<requestsPerInterval, interval, now, queueIndex, laneBusy, laneElapsed,
            laneWaiting, submitted, opStart, opRuns, opResult, settled>>
resolveVars == <<wikipediaUrl, resolvePc, queries, queryAt, response, resolveResult>>
waitVars == <<waitKind, waitTimeout, matches, heldBy, observing, records, timer,
              waitElapsed, promise, resolveCalls, rejectCalls, lateCallbacks, mutations,
              heldAtCall, cameToHold, timeoutHeld>>
inlineVars == <<urlElement, href, oldLink, newLink, fixerUpperButton, observers,
                lookupFor, lookupState, editItemClicks, rawUrl, inlineError, cleared>>
vars == <<orchVars, rlVars, resolveVars, waitVars, inlineVars>>
\* What a run on the URL edit page, the rate limiter and a call of
\* getWikidataUrlFromWikipedia on its own leave alone.
besideRun == <<rlVars, resolveVars, waitVars, inlineVars>>
besideLimiter == <<orchVars, resolveVars, waitVars, inlineVars>>
besideResolve == <<orchVars, rlVars, waitVars, inlineVars>>
besideWait == <<orchVars, rlVars, resolveVars, inlineVars>>
besideInline == <<orchVars, rlVars, resolveVars, waitVars>>

\* ------------------------------------------------------------ helpers
RECURSIVE SumTo(_, _)
SumTo(s, n) == IF n = 0 THEN 0 ELSE s[n] + SumTo(s, n - 1)

NumItems == SumTo(rows, Len(rows))
Items == 1..NumItems

\* The item at position kk of row rr, items numbered in document order.
ItemId(rr, kk) == SumTo(rows, rr - 1) + kk

RowLayouts ==
    {s \in UNION {[1..n -> 1..MaxItems] : n \in 0..MaxItems} :
        SumTo(s, Len(s)) <= MaxItems}

UrlForms == {"WikipediaArticle", "WikipediaOther", "Wikidata", "Other"}

isWikipediaLink(form) == form \in {"WikipediaArticle", "WikipediaOther"}

isWikidataLink(form) == form = "Wikidata"

\* TRUE when the regular expression of parseWikipediaUrl matches.
parseWikipediaUrl(form) == form = "WikipediaArticle"

LookupResponses == {"ok", "NotFound", "NoMapping", "Transport", "Malformed"}

\* What querySelector can answer.
Lookups == {"found", "null"}

\* ------------------------------------------------------------ initial state
InitPage ==
    /\ urlInputExists \in BOOLEAN
    /\ urlForm \in UrlForms
    /\ pendingMarker \in {"none", "hidden", "shown"}
    /\ editorExists \in BOOLEAN
    /\ rows \in RowLayouts
    /\ ~editorExists => rows = << >>
    /\ dialog = 0
    /\ dialogHasDone = FALSE
    /\ doneClicked = FALSE
    /\ requested = {}
    /\ editNoteInput = "unqueried"
    /\ editButton = [i \in Items |-> "unqueried"]
    /\ removeButton = [i \in Items |-> "unqueried"]
    /\ makeVotableCheckbox = "unqueried"
    /\ submitButton = "unqueried"

InitRun ==
    /\ pc = "start"
    /\ hasPendingEdits = FALSE
    /\ convertButton = "absent"
    /\ conversionSuccessful = FALSE
    /\ allRelationshipsHandled = FALSE
    /\ relationshipsProcessedCount = 0
    /\ totalRelationshipsToProcess = 0
    /\ relationshipsSuccessfullyRemoved = TRUE
    /\ r = 1
    /\ k = 1
    /\ dialogElement = 0
    /\ dialogElementHasDone = FALSE
    /\ wikidataOption = FALSE
    /\ doneButton = "unqueried"
    /\ errorShown = "none"
    /\ thrown = "none"
    /\ runs = 0
    /\ lookupCalls = 0
    /\ lookupOk = FALSE
    /\ editClicks = [i \in Items |-> 0]
    /\ removeClicks = [i \in Items |-> 0]
    /\ commitClicks = 0
    /\ submitClicks = 0
    /\ votableChecked = FALSE
    /\ votableAtSubmit = FALSE
    /\ outcome = [i \in Items |-> "Pending"]
    /\ lastItem = 0
    /\ staleAtClick = FALSE
    /\ staleHandled = FALSE
    /\ recoveryClicks = [i \in Items |-> 0]

\* callAPI (line 123): one lane; it is never called on the URL edit page.
RateLimiterUnused ==
    /\ requestsPerInterval = 1
    /\ interval = 1
    /\ now = 0
    /\ queueIndex = 0
    /\ laneBusy = [l \in 0..0 |-> FALSE]
    /\ laneElapsed = [l \in 0..0 |-> 0]
    /\ laneWaiting = [l \in 0..0 |-> << >>]
    /\ submitted = << >>
    /\ opStart = << >>
    /\ opRuns = << >>
    /\ opResult = << >>
    /\ settled = << >>

\* getWikidataUrlFromWikipedia has not been called.
NoResolution ==
    /\ wikipediaUrl = << >>
    /\ resolvePc = << >>
    /\ queries = << >>
    /\ queryAt = << >>
    /\ response = << >>
    /\ resolveResult = << >>

\* waitForElement and waitForElementRemoval have not been called.
NotWaiting ==
    /\ waitKind = "none"
    /\ waitTimeout = 1
    /\ heldBy = "call"
    /\ observing = FALSE
    /\ records = FALSE
    /\ timer = "none"
    /\ waitElapsed = 0
    /\ promise = "none"
    /\ resolveCalls = 0
    /\ rejectCalls = 0
    /\ lateCallbacks = 0
    /\ mutations = 0
    /\ heldAtCall = FALSE
    /\ cameToHold = FALSE
    /\ timeoutHeld = "no"

NoWait == NotWaiting /\ matches = FALSE

\* The page has no inline external links editor.
NoInline ==
    /\ urlElement = FALSE
    /\ href = 1
    /\ oldLink = 0
    /\ newLink = 0
    /\ fixerUpperButton = "absent"
    /\ observers = << >>
    /\ lookupFor = << >>
    /\ lookupState = << >>
    /\ editItemClicks = 0
    /\ rawUrl = 0
    /\ inlineError = FALSE
    /\ cleared = FALSE

Init ==
    InitPage /\ InitRun /\ RateLimiterUnused /\ NoResolution /\ NoWait /\ NoInline

\* ------------------------------------------------------------ runOnURLEditPage
Cur == ItemId(r, k)

\* Faulty variant: the result of the guard is ignored.
RefusesRun_Never(pending) == FALSE

\* Line 746: the run is refused when the marker was observed.
RefusesRun(pending) == pending

\* Lines 752-761 and 564-575: the button is created and clicked, fixLinkURLEdit
\* runs up to its first await: the reference is parsed and the lookup is issued.
StartRun ==
    /\ convertButton' = "disabled"
    /\ runs' = runs + 1
    /\ IF parseWikipediaUrl(urlForm)
       THEN /\ lookupCalls' = lookupCalls + 1
            /\ pc' = "lookup"
            /\ thrown' = thrown
       ELSE /\ lookupCalls' = lookupCalls
            /\ pc' = "outerCatch"
            /\ thrown' = "InvalidReferenceFormat"

\* Lines 744-762: what follows the wait for the marker.
AfterGuard(pending) ==
    /\ hasPendingEdits' = pending
    /\ IF RefusesRun(pending)
       THEN /\ errorShown' = "PendingConflict"
            /\ pc' = "done"
            /\ UNCHANGED <<convertButton, runs, lookupCalls, thrown>>
       ELSE /\ StartRun
            /\ errorShown' = errorShown

guardFrame == <<loopVars, handlerVars, conversionSuccessful, allRelationshipsHandled,
                relationshipsSuccessfullyRemoved, lookupOk, clickVars, itemVars,
                besideRun>>

\* Faulty variant: only a missing URL input makes the function return.
ReturnsEarly_InputOnly(exists, form) == ~exists

\* Lines 720-726: the early returns of runOnURLEditPage.
ReturnsEarly(exists, form) ==
    ~exists \/ ~isWikipediaLink(form) \/ isWikidataLink(form)

\* Lines 719-733: early returns, then waitForElement checks for the marker at once.
Start ==
    /\ pc = "start"
    /\ IF ReturnsEarly(urlInputExists, urlForm)
       THEN /\ pc' = "done"
            /\ UNCHANGED <<hasPendingEdits, errorShown, convertButton, runs,
                           lookupCalls, thrown>>
       ELSE IF pendingMarker = "shown"
            THEN AfterGuard(TRUE)
            ELSE /\ pc' = "guardWait"
                 /\ UNCHANGED <<hasPendingEdits, errorShown, convertButton, runs,
                                lookupCalls, thrown>>
    /\ UNCHANGED <<pageVars, guardFrame>>

\* The site renders the marker; the observer of line 434 sees it if subscribed.
EnvMarkerAppears ==
    /\ pendingMarker = "hidden"
    /\ pendingMarker' = "shown"
    /\ IF pc = "guardWait"
       THEN AfterGuard(TRUE)
       ELSE UNCHANGED <<pc, hasPendingEdits, errorShown, convertButton, runs,
                        lookupCalls, thrown>>
    /\ UNCHANGED <<sitePage, urlForm, dialogVars, foundVars, guardFrame>>

\* Lines 443-446 and 739-743: the 1000 ms timer fires first.
GuardTimeout ==
    /\ pc = "guardWait"
    /\ AfterGuard(FALSE)
    /\ UNCHANGED <<pageVars, guardFrame>>

\* ------------------------------------------------------------ fixLinkURLEdit
\* Lines 275-297 and 575-578: the lookup answers; on success the reference is
\* rewritten and the edit note updated (line 185 throws without an edit note).
LookupResponds ==
    /\ pc = "lookup"
    /\ \E resp \in LookupResponses, note \in Lookups :
        IF resp = "ok"
        THEN /\ lookupOk' = TRUE
             /\ urlForm' = "Wikidata"
             /\ editNoteInput' = note
             /\ IF note = "found"
                THEN /\ conversionSuccessful' = TRUE
                     /\ thrown' = thrown
                     /\ IF editorExists
                        THEN /\ pc' = "rowHead"
                             /\ allRelationshipsHandled' = allRelationshipsHandled
                        ELSE /\ pc' = "finally"
                             /\ allRelationshipsHandled' = TRUE
                ELSE /\ thrown' = "EditNote"
                     /\ pc' = "outerCatch"
                     /\ UNCHANGED <<conversionSuccessful, allRelationshipsHandled>>
        ELSE /\ thrown' = resp
             /\ pc' = "outerCatch"
             /\ UNCHANGED <<lookupOk, urlForm, editNoteInput, conversionSuccessful,
                            allRelationshipsHandled>>
    /\ r' = 1
    /\ k' = 1
    /\ UNCHANGED <<sitePage, pendingMarker, dialogVars, editButton, removeButton,
                   makeVotableCheckbox, submitButton, relationshipsProcessedCount,
                   totalRelationshipsToProcess, handlerVars, hasPendingEdits,
                   convertButton, relationshipsSuccessfullyRemoved, errorShown, runs,
                   lookupCalls, clickVars, itemVars, besideRun>>

\* Lines 636-640.
OuterCatch ==
    /\ pc = "outerCatch"
    /\ errorShown' = thrown
    /\ conversionSuccessful' = FALSE
    /\ pc' = "finally"
    /\ UNCHANGED <<pageVars, loopVars, handlerVars, hasPendingEdits, convertButton,
                   allRelationshipsHandled, relationshipsSuccessfullyRemoved, thrown,
                   netVars, clickVars, itemVars, besideRun>>

\* Line 630.
AllProcessed(processed, total) == processed = total

\* Lines 586-588 and 630-632: the head of the loop over the rows.
RowHead ==
    /\ pc = "rowHead"
    /\ IF r > Len(rows)
       THEN /\ allRelationshipsHandled' =
                    (allRelationshipsHandled
                        \/ AllProcessed(relationshipsProcessedCount,
                                        totalRelationshipsToProcess))
            /\ pc' = "finally"
            /\ UNCHANGED <<totalRelationshipsToProcess, k>>
       ELSE /\ totalRelationshipsToProcess' = totalRelationshipsToProcess + rows[r]
            /\ k' = 1
            /\ pc' = "itemHead"
            /\ UNCHANGED allRelationshipsHandled
    /\ UNCHANGED <<pageVars, relationshipsProcessedCount, r, handlerVars,
                   hasPendingEdits, convertButton, conversionSuccessful,
                   relationshipsSuccessfullyRemoved, errorShown, thrown, netVars,
                   clickVars, itemVars, besideRun>>

\* Faulty variant: an item without an edit control is not counted.
CountSkipped_Not(count) == count

\* Lines 625-627: an item without an edit control is counted as processed.
CountSkipped(count) == count + 1

\* Lines 590-596 and 625-627: the head of the loop over the items of a row. The
\* edit control is clicked and waitForElement checks for the dialog at once.
ItemHead ==
    /\ pc = "itemHead"
    /\ IF k > rows[r]
       THEN /\ r' = r + 1
            /\ pc' = "rowHead"
            /\ UNCHANGED <<k, relationshipsProcessedCount, requested, editButton,
                           editClicks, handlerVars, lastItem, staleAtClick,
                           staleHandled>>
       ELSE \E button \in Lookups :
            /\ editButton' = [editButton EXCEPT ![Cur] = button]
            /\ IF button = "found"
               THEN /\ editClicks' = [editClicks EXCEPT ![Cur] = @ + 1]
                    /\ staleAtClick' = (staleAtClick \/ dialog # 0)
                    /\ requested' = requested \cup {Cur}
                    /\ lastItem' = Cur
                    /\ wikidataOption' = FALSE
                    /\ doneButton' = "unqueried"
                    /\ dialogElement' = dialog
                    /\ dialogElementHasDone' = dialogHasDone
                    /\ staleHandled' = (staleHandled \/ dialog # 0)
                    /\ pc' = IF dialog # 0 THEN "handle" ELSE "waitDialog"
                    /\ UNCHANGED <<r, k, relationshipsProcessedCount>>
               ELSE /\ relationshipsProcessedCount' =
                            CountSkipped(relationshipsProcessedCount)
                    /\ k' = k + 1
                    /\ pc' = "itemHead"
                    /\ UNCHANGED <<r, requested, editClicks, handlerVars, lastItem,
                                   staleAtClick, staleHandled>>
    /\ UNCHANGED <<sitePage, urlForm, pendingMarker, dialog, dialogHasDone,
                   doneClicked, editNoteInput, removeButton, makeVotableCheckbox,
                   submitButton, totalRelationshipsToProcess, flagVars, netVars,
                   removeClicks, commitClicks, submitClicks, votableChecked,
                   votableAtSubmit, outcome, recoveryClicks, besideRun>>

\* The site opens the dialog of an item whose edit control was clicked; a waiter
\* subscribed at line 448 is notified and resolves with the dialog it finds.
EnvOpenDialog ==
    /\ dialog = 0
    /\ \E j \in requested, done \in BOOLEAN :
        /\ dialog' = j
        /\ dialogHasDone' = done
        /\ requested' = requested \ {j}
        /\ IF pc = "waitDialog"
           THEN /\ pc' = "handle"
                /\ dialogElement' = j
                /\ dialogElementHasDone' = done
                /\ staleHandled' = (staleHandled \/ j # Cur)
           ELSE UNCHANGED <<pc, dialogElement, dialogElementHasDone, staleHandled>>
    /\ doneClicked' = FALSE
    /\ UNCHANGED <<sitePage, urlForm, pendingMarker, foundVars, loopVars,
                   wikidataOption, doneButton, flagVars, netVars, clickVars, outcome,
                   lastItem, staleAtClick, recoveryClicks, besideRun>>

\* The site closes the dialog whose Done button was clicked; a waiter subscribed
\* at line 488 is notified and resolves.
EnvCloseDialog ==
    /\ dialog # 0
    /\ doneClicked
    /\ dialog' = 0
    /\ doneClicked' = FALSE
    /\ dialogHasDone' = FALSE
    /\ pc' = CASE pc = "waitRemoval" -> "converted"
               [] pc = "recoverWait" -> "recoverEnd"
               [] OTHER -> pc
    /\ UNCHANGED <<sitePage, urlForm, pendingMarker, requested, foundVars, loopVars,
                   handlerVars, flagVars, netVars, clickVars, itemVars, besideRun>>

\* Faulty variant: the try block of lines 595-600 has no catch of its own.
DialogErrorTarget_Outer == "outerCatch"

\* Faulty variant: a wait that failed is waited for again.
DialogErrorTarget_WaitsAgain == "waitDialog"

\* Line 601: where an error thrown inside the try block of lines 595-600 goes.
DialogErrorTarget == "recover"

\* What a throw inside the try block of lines 595-600 does.
ThrowInDialogTry(message) ==
    /\ pc' = DialogErrorTarget
    /\ thrown' = IF DialogErrorTarget = "recover" THEN thrown ELSE message

tryFrame == <<pageVars, loopVars, hasPendingEdits, convertButton,
              conversionSuccessful, allRelationshipsHandled,
              relationshipsSuccessfullyRemoved, errorShown, netVars, clickVars,
              itemVars, besideRun>>

\* Lines 443-446 under line 596: no dialog within 5000 ms.
WaitDialogTimeout ==
    /\ pc = "waitDialog"
    /\ ThrowInDialogTry("Timeout")
    /\ UNCHANGED <<tryFrame, handlerVars>>

\* Lines 498-508: the type input of the dialog is awaited for 2000 ms.
HandleTypeInput ==
    /\ pc = "handle"
    /\ \E typeInput \in Lookups :
        IF typeInput = "found"
        THEN pc' = "selectOption" /\ thrown' = thrown
        ELSE ThrowInDialogTry("Timeout")
    /\ UNCHANGED <<tryFrame, handlerVars>>

\* Lines 510-552: an option with one of the two labels is clicked when one is
\* listed, at once or after the label was typed into the search input.
SelectOption ==
    /\ pc = "selectOption"
    /\ \E preloaded \in BOOLEAN, searchInput \in Lookups, typed \in BOOLEAN :
        IF preloaded
        THEN /\ wikidataOption' = TRUE
             /\ pc' = "clickDone"
             /\ thrown' = thrown
        ELSE IF searchInput = "found"
             THEN /\ wikidataOption' = typed
                  /\ pc' = "clickDone"
                  /\ thrown' = thrown
             ELSE /\ wikidataOption' = wikidataOption
                  /\ ThrowInDialogTry("Timeout")
    /\ UNCHANGED <<tryFrame, dialogElement, dialogElementHasDone, doneButton>>

\* Lines 555-561: the Done button of the dialog element is clicked when it has
\* one; the click reaches the page when that element is still the dialog present.
ClickDone ==
    /\ pc = "clickDone"
    /\ IF dialogElementHasDone
       THEN /\ doneButton' = "found"
            /\ commitClicks' = commitClicks + 1
            /\ doneClicked' = (doneClicked \/ dialog = dialogElement)
       ELSE /\ doneButton' = "null"
            /\ UNCHANGED <<commitClicks, doneClicked>>
    /\ pc' = "doneDelay"
    /\ UNCHANGED <<sitePage, urlForm, pendingMarker, dialog, dialogHasDone,
                   requested, foundVars, loopVars, dialogElement,
                   dialogElementHasDone, wikidataOption, flagVars, netVars,
                   editClicks, removeClicks, submitClicks, votableChecked,
                   votableAtSubmit, itemVars, besideRun>>

\* Lines 470-473 under line 598: waitForElementRemoval checks at once.
AwaitRemoval ==
    /\ pc = "doneDelay"
    /\ pc' = IF dialog = 0 THEN "converted" ELSE "waitRemoval"
    /\ UNCHANGED <<pageVars, loopVars, handlerVars, flagVars, netVars, clickVars,
                   itemVars, besideRun>>

\* Lines 483-486 under line 598: the dialog is still there after 5000 ms.
WaitRemovalTimeout ==
    /\ pc = "waitRemoval"
    /\ ThrowInDialogTry("Timeout")
    /\ UNCHANGED <<tryFrame, handlerVars>>

\* Lines 599-600.
Converted ==
    /\ pc = "converted"
    /\ relationshipsProcessedCount' = relationshipsProcessedCount + 1
    /\ outcome' = [outcome EXCEPT ![Cur] = "Converted"]
    /\ k' = k + 1
    /\ pc' = "itemHead"
    /\ UNCHANGED <<pageVars, totalRelationshipsToProcess, r, handlerVars, flagVars,
                   netVars, clickVars, lastItem, staleAtClick, staleHandled,
                   recoveryClicks, besideRun>>

\* Faulty variant: the Done button is clicked whether a dialog is there or not.
ForceCloses_Blind(present, hasDone) == TRUE

\* Lines 603-607: a dialog is present and has a Done button.
ForceCloses(present, hasDone) == present /\ hasDone

\* Lines 601-621: the Done button of a dialog still present is clicked once more.
Recover ==
    /\ pc = "recover"
    /\ IF ForceCloses(dialog # 0, dialogHasDone)
       THEN /\ commitClicks' = commitClicks + 1
            /\ recoveryClicks' = [recoveryClicks EXCEPT ![Cur] = @ + 1]
            /\ doneClicked' = TRUE
            /\ pc' = "recoverDelay"
       ELSE /\ pc' = "recoverEnd"
            /\ UNCHANGED <<commitClicks, recoveryClicks, doneClicked>>
    /\ UNCHANGED <<sitePage, urlForm, pendingMarker, dialog, dialogHasDone,
                   requested, foundVars, loopVars, handlerVars, flagVars, netVars,
                   editClicks, removeClicks, submitClicks, votableChecked,
                   votableAtSubmit, outcome, lastItem, staleAtClick, staleHandled,
                   besideRun>>

\* Lines 609-611: after 200 ms waitForElementRemoval checks at once.
RecoverAwaitRemoval ==
    /\ pc = "recoverDelay"
    /\ pc' = IF dialog = 0 THEN "recoverEnd" ELSE "recoverWait"
    /\ UNCHANGED <<pageVars, loopVars, handlerVars, flagVars, netVars, clickVars,
                   itemVars, besideRun>>

\* Lines 613-615: the dialog is still there after 2000 ms; the error is logged.
RecoverTimeout ==
    /\ pc = "recoverWait"
    /\ pc' = "recoverEnd"
    /\ UNCHANGED <<pageVars, loopVars, handlerVars, flagVars, netVars, clickVars,
                   itemVars, besideRun>>

\* Lines 622-623.
RecoverEnd ==
    /\ pc = "recoverEnd"
    /\ relationshipsProcessedCount' = relationshipsProcessedCount + 1
    /\ outcome' = [outcome EXCEPT ![Cur] = "Failed"]
    /\ k' = k + 1
    /\ pc' = "itemHead"
    /\ UNCHANGED <<pageVars, totalRelationshipsToProcess, r, handlerVars, flagVars,
                   netVars, clickVars, lastItem, staleAtClick, staleHandled,
                   recoveryClicks, besideRun>>

\* Faulty variant: the checkbox is never checked.
CheckVotable_Never(checkbox) == FALSE

\* Lines 649-653 and 698-702: the votable checkbox is checked when there is one.
CheckVotable(checkbox) == checkbox = "found"

\* Lines 649-662 and 698-711: the checkbox is checked and, with a submit button,
\* the submit click is scheduled after 500 ms.
Finalize(checkbox) ==
    /\ votableChecked' = (votableChecked \/ CheckVotable(checkbox))
    /\ \E button \in Lookups :
        /\ submitButton' = button
        /\ pc' = IF button = "found" THEN "submitDelay" ELSE "done"

\* Lines 640-671: the finally block up to its first await.
Finally ==
    /\ pc = "finally"
    /\ convertButton' = "enabled"
    /\ \E checkbox \in Lookups :
        /\ makeVotableCheckbox' = checkbox
        /\ IF conversionSuccessful
           THEN /\ IF allRelationshipsHandled
                   THEN Finalize(checkbox)
                   ELSE /\ pc' = "done"
                        /\ UNCHANGED <<votableChecked, submitButton>>
                /\ UNCHANGED <<relationshipsSuccessfullyRemoved, r, k>>
           ELSE /\ relationshipsSuccessfullyRemoved' = TRUE
                /\ r' = 1
                /\ k' = 1
                /\ pc' = IF editorExists THEN "removeItem" ELSE "removeVerdict"
                /\ UNCHANGED <<votableChecked, submitButton>>
    /\ UNCHANGED <<sitePage, urlForm, pendingMarker, dialogVars, editNoteInput,
                   editButton, removeButton, relationshipsProcessedCount,
                   totalRelationshipsToProcess, handlerVars, hasPendingEdits,
                   conversionSuccessful, allRelationshipsHandled, errorShown, thrown,
                   netVars, editClicks, removeClicks, commitClicks, submitClicks,
                   votableAtSubmit, itemVars, besideRun>>

\* Faulty variant: the flag is left as it was.
RemovedAfterMissingControl_Kept(flag) == flag

\* Lines 686-689: the flag after an item without a remove control.
RemovedAfterMissingControl(flag) == FALSE

\* Faulty variant: the loops end at an item without a remove control.
AfterMissingControl_Stops == "removeVerdict"

\* Lines 686-690: after an item without a remove control the loop goes on.
AfterMissingControl == "removeItem"

\* Lines 673-690: one step of the removal loops.
RemoveItem ==
    /\ pc = "removeItem"
    /\ IF r > Len(rows)
       THEN /\ pc' = "removeVerdict"
            /\ UNCHANGED <<r, k, removeButton, removeClicks, outcome,
                           relationshipsSuccessfullyRemoved>>
       ELSE IF k > rows[r]
            THEN /\ r' = r + 1
                 /\ k' = 1
                 /\ pc' = "removeItem"
                 /\ UNCHANGED <<removeButton, removeClicks, outcome,
                                relationshipsSuccessfullyRemoved>>
            ELSE \E button \in Lookups :
                 /\ removeButton' = [removeButton EXCEPT ![Cur] = button]
                 /\ IF button = "found"
                    THEN /\ removeClicks' = [removeClicks EXCEPT ![Cur] = @ + 1]
                         /\ outcome' = [outcome EXCEPT ![Cur] = "Removed"]
                         /\ pc' = "removeDelay"
                         /\ UNCHANGED <<r, k, relationshipsSuccessfullyRemoved>>
                    ELSE /\ relationshipsSuccessfullyRemoved' =
                                RemovedAfterMissingControl(
                                    relationshipsSuccessfullyRemoved)
                         /\ outcome' = [outcome EXCEPT ![Cur] = "Failed"]
                         /\ k' = k + 1
                         /\ pc' = AfterMissingControl
                         /\ UNCHANGED <<r, removeClicks>>
    /\ UNCHANGED <<sitePage, urlForm, pendingMarker, dialogVars, editNoteInput,
                   editButton, makeVotableCheckbox, submitButton,
                   relationshipsProcessedCount, totalRelationshipsToProcess,
                   handlerVars, hasPendingEdits, convertButton, conversionSuccessful,
                   allRelationshipsHandled, errorShown, thrown, netVars, editClicks,
                   commitClicks, submitClicks, votableChecked, votableAtSubmit,
                   lastItem, staleAtClick, staleHandled, recoveryClicks, besideRun>>

\* Line 681: the 300 ms after a remove click.
RemoveDelay ==
    /\ pc = "removeDelay"
    /\ k' = k + 1
    /\ pc' = "removeItem"
    /\ UNCHANGED <<pageVars, relationshipsProcessedCount, totalRelationshipsToProcess,
                   r, handlerVars, flagVars, netVars, clickVars, itemVars, besideRun>>

\* Lines 695-714.
RemoveVerdict ==
    /\ pc = "removeVerdict"
    /\ IF relationshipsSuccessfullyRemoved
       THEN Finalize(makeVotableCheckbox)
       ELSE /\ pc' = "done"
            /\ UNCHANGED <<votableChecked, submitButton>>
    /\ UNCHANGED <<sitePage, urlForm, pendingMarker, dialogVars, editNoteInput,
                   editButton, removeButton, makeVotableCheckbox, loopVars,
                   handlerVars, flagVars, netVars, editClicks, removeClicks,
                   commitClicks, submitClicks, votableAtSubmit, itemVars, besideRun>>

\* Lines 657-658 and 706-707: the submit button is clicked after the 500 ms.
Submit ==
    /\ pc = "submitDelay"
    /\ submitClicks' = submitClicks + 1
    /\ votableAtSubmit' = votableChecked
    /\ pc' = "done"
    /\ UNCHANGED <<pageVars, loopVars, handlerVars, flagVars, netVars, editClicks,
                   removeClicks, commitClicks, votableChecked, itemVars, besideRun>>

Next ==
    \/ Start
    \/ EnvMarkerAppears
    \/ GuardTimeout
    \/ LookupResponds
    \/ OuterCatch
    \/ RowHead
    \/ ItemHead
    \/ EnvOpenDialog
    \/ EnvCloseDialog
    \/ WaitDialogTimeout
    \/ HandleTypeInput
    \/ SelectOption
    \/ ClickDone
    \/ AwaitRemoval
    \/ WaitRemovalTimeout
    \/ Converted
    \/ Recover
    \/ RecoverAwaitRemoval
    \/ RecoverTimeout
    \/ RecoverEnd
    \/ Finally
    \/ RemoveItem
    \/ RemoveDelay
    \/ RemoveVerdict
    \/ Submit

Spec == Init /\ [][Next]_vars

\* The steps the script takes by itself: a timer fires (a delay, the timeout of a
\* wait) or the code after an await goes on. What the site and the lookup service
\* do is left out.
ScriptStep ==
    \/ Start
    \/ GuardTimeout
    \/ OuterCatch
    \/ RowHead
    \/ ItemHead
    \/ WaitDialogTimeout
    \/ HandleTypeInput
    \/ SelectOption
    \/ ClickDone
    \/ AwaitRemoval
    \/ WaitRemovalTimeout
    \/ Converted
    \/ Recover
    \/ RecoverAwaitRemoval
    \/ RecoverTimeout
    \/ RecoverEnd
    \/ Finally
    \/ RemoveItem
    \/ RemoveDelay
    \/ RemoveVerdict
    \/ Submit

\* A run in which every timer that is due fires; the site may open or close a
\* dialog or never do so, and the lookup may never be answered.
SpecFair == Init /\ [][Next]_vars /\ WF_vars(ScriptStep)
\* ------------------------------------------------------------ rateLimit
Lanes == 0..(requestsPerInterval - 1)

Min(a, b) == IF a < b THEN a ELSE b

\* A page on which runOnURLEditPage is not called (lines 764-774).
OtherPage ==
    /\ urlInputExists = FALSE
    /\ urlForm = "Other"
    /\ pendingMarker = "none"
    /\ editorExists = FALSE
    /\ rows = << >>
    /\ dialog = 0
    /\ dialogHasDone = FALSE
    /\ doneClicked = FALSE
    /\ requested = {}
    /\ editNoteInput = "unqueried"
    /\ editButton = << >>
    /\ removeButton = << >>
    /\ makeVotableCheckbox = "unqueried"
    /\ submitButton = "unqueried"
    /\ InitRun

\* Lines 107-112 and 92: rateLimit(operation, interval, requestsPerInterval) makes
\* one chain per lane, each an already resolved promise.
InitRateLimit ==
    /\ requestsPerInterval \in 1..MaxLanes
    /\ interval \in 1..MaxInterval
    /\ now = 0
    /\ queueIndex = 0
    /\ laneBusy = [l \in Lanes |-> FALSE]
    /\ laneElapsed = [l \in Lanes |-> 0]
    /\ laneWaiting = [l \in Lanes |-> << >>]
    /\ submitted = << >>
    /\ opStart = << >>
    /\ opRuns = << >>
    /\ opResult = << >>
    /\ settled = << >>

InitRL == OtherPage /\ InitRateLimit /\ NoResolution /\ NoWait /\ NoInline

\* Faulty variant: the lane index is never advanced.
NextQueueIndex_Stuck(index) == index

\* Lines 108-110 and 114: the lane of the next call.
NextQueueIndex(index) ==
    IF requestsPerInterval = 1 THEN 0 ELSE (index + 1) % requestsPerInterval

\* Faulty variant: the delay resolves at once.
DelayResolved_AtOnce(elapsed, ms) == elapsed >= 0

\* Lines 86-88: the promise of delay(ms) resolves once ms have elapsed.
DelayResolved(elapsed, ms) == elapsed >= ms

\* The promise returned at line 96 before the operation has settled.
Unsettled == [of |-> 0, kind |-> "pending"]

\* Lines 93-97 and 113-116: a call of the rate-limited function. The operation is
\* chained behind the lane's queue and a delay is chained behind the queue too;
\* with the queue resolved both callbacks run in the next microtask.
SubmitOp ==
    /\ Len(submitted) < MaxOps
    /\ LET lane == NextQueueIndex(queueIndex)
           op == Len(submitted) + 1
       IN /\ queueIndex' = lane
          /\ submitted' = Append(submitted, [lane |-> lane, at |-> now])
          /\ settled' = Append(settled, Unsettled)
          /\ IF laneBusy[lane]
             THEN /\ laneWaiting' = [laneWaiting EXCEPT ![lane] = Append(@, op)]
                  /\ opStart' = Append(opStart, -1)
                  /\ opRuns' = Append(opRuns, 0)
                  /\ opResult' = Append(opResult, "waiting")
                  /\ UNCHANGED <<laneBusy, laneElapsed>>
             ELSE /\ opStart' = Append(opStart, now)
                  /\ opRuns' = Append(opRuns, 1)
                  /\ opResult' = Append(opResult, "running")
                  /\ laneBusy' = [laneBusy EXCEPT ![lane] = TRUE]
                  /\ laneElapsed' = [laneElapsed EXCEPT ![lane] = 0]
                  /\ UNCHANGED laneWaiting
    /\ UNCHANGED <<requestsPerInterval, interval, now, besideLimiter>>

\* The result of the operation a lane started last, "none" before the first.
LastResult(lane) ==
    LET started == {op \in 1..Len(submitted) :
                       submitted[op].lane = lane /\ opRuns[op] > 0}
    IN IF started = {} THEN "none"
       ELSE opResult[CHOOSE op \in started : \A o \in started : o <= op]

\* Faulty variant: the chain goes on only behind an operation that has not failed.
Chained_OnSuccess(result) == result # "failure"

\* Line 95: the fulfilment and the rejection callback both start the delay, and
\* the chain holds delays only, so it goes on whatever the operation's result.
Chained(result) == TRUE

\* The callbacks chained behind the delay of a lane can run.
LaneReady(lane) ==
    /\ laneBusy[lane]
    /\ DelayResolved(laneElapsed[lane], interval)
    /\ Chained(LastResult(lane))

\* Line 95: the delay at the tail of a lane's chain resolves; the operation and
\* the delay chained behind it start. Both callbacks of line 95 start a delay, and
\* the chain is made of delays only: how an operation settled is not looked at.
DelayElapses ==
    /\ \E lane \in Lanes :
        /\ LaneReady(lane)
        /\ IF laneWaiting[lane] # << >>
           THEN /\ opStart' = [opStart EXCEPT ![Head(laneWaiting[lane])] = now]
                /\ opRuns' = [opRuns EXCEPT ![Head(laneWaiting[lane])] = @ + 1]
                /\ opResult' = [opResult EXCEPT ![Head(laneWaiting[lane])] = "running"]
                /\ laneWaiting' = [laneWaiting EXCEPT ![lane] = Tail(@)]
                /\ laneElapsed' = [laneElapsed EXCEPT ![lane] = 0]
                /\ UNCHANGED laneBusy
           ELSE /\ laneBusy' = [laneBusy EXCEPT ![lane] = FALSE]
                /\ UNCHANGED <<opStart, opRuns, opResult, laneWaiting, laneElapsed>>
    /\ UNCHANGED <<requestsPerInterval, interval, now, queueIndex, submitted, settled,
                   besideLimiter>>

\* Faulty variant: every caller is handed the promise of the first call.
CallerOf_First(op) == 1

\* Lines 94 and 96: the promise handed to the caller of a call is the one made by
\* queue.then for the operation of that same call.
CallerOf(op) == op

\* Line 94: a started operation resolves with a value or rejects; the promise of
\* the call settles the same way. A promise settles once.
OpSettles ==
    /\ \E op \in 1..Len(submitted), kind \in {"value", "failure"} :
        /\ opResult[op] = "running"
        /\ opResult' = [opResult EXCEPT ![op] = kind]
        /\ settled' = IF settled[CallerOf(op)].kind = "pending"
                      THEN [settled EXCEPT ![CallerOf(op)] = [of |-> op, kind |-> kind]]
                      ELSE settled
    /\ UNCHANGED <<requestsPerInterval, interval, now, queueIndex, laneBusy,
                   laneElapsed, laneWaiting, submitted, opStart, opRuns, besideLimiter>>

\* Time passes; a timer may fire later than its delay, never earlier.
Tick ==
    /\ now < MaxTime
    /\ now' = now + 1
    /\ laneElapsed' = [l \in Lanes |->
                          IF laneBusy[l] THEN Min(laneElapsed[l] + 1, interval)
                          ELSE laneElapsed[l]]
    /\ UNCHANGED <<requestsPerInterval, interval, queueIndex, laneBusy, laneWaiting,
                   submitted, opStart, opRuns, opResult, settled, besideLimiter>>

NextRL ==
    \/ SubmitOp
    \/ DelayElapses
    \/ OpSettles
    \/ Tick

SpecRL == InitRL /\ [][NextRL]_vars

\* Time passes beyond the last instant that is measured.
LateTick ==
    /\ now = MaxTime
    /\ laneElapsed' = [l \in Lanes |->
                          IF laneBusy[l] THEN Min(laneElapsed[l] + 1, interval)
                          ELSE laneElapsed[l]]
    /\ UNCHANGED <<requestsPerInterval, interval, now, queueIndex, laneBusy,
                   laneWaiting, submitted, opStart, opRuns, opResult, settled,
                   besideLimiter>>

\* rateLimit is called when the clock is past the last instant that is measured:
\* how long each delay has run is still followed.
InitRLFair ==
    /\ OtherPage
    /\ NoInline
    /\ NoResolution
    /\ NoWait
    /\ requestsPerInterval \in 1..MaxLanes
    /\ interval \in 1..MaxInterval
    /\ now = MaxTime
    /\ queueIndex = 0
    /\ laneBusy = [l \in Lanes |-> FALSE]
    /\ laneElapsed = [l \in Lanes |-> 0]
    /\ laneWaiting = [l \in Lanes |-> << >>]
    /\ submitted = << >>
    /\ opStart = << >>
    /\ opRuns = << >>
    /\ opResult = << >>
    /\ settled = << >>

NextRLFair ==
    \/ SubmitOp
    \/ DelayElapses
    \/ OpSettles
    \/ LateTick

\* Time goes on, a timer that is due fires (lines 86-88), and an operation that
\* was started settles.
SpecRLFair ==
    /\ InitRLFair
    /\ [][NextRLFair]_vars
    /\ WF_vars(LateTick)
    /\ WF_vars(DelayElapses)
    /\ WF_vars(OpSettles)
\* ------------------------------------------------------------ getWikidataUrlFromWikipedia
\* A URL: its shape and, for a Wikidata URL, the number of its entity.
References ==
    [form : UrlForms \ {"Wikidata"}, id : {0}] \cup [form : {"Wikidata"}, id : 1..MaxId]

\* Line 293.
WikidataUrl(wikidataId) == [form |-> "Wikidata", id |-> wikidataId]

NoUrl == [form |-> "none", id |-> 0]

NoAnswer == [event |-> "none", httpError |-> FALSE, body |-> "none", item |-> 0]

\* What GM_xmlhttpRequest can report (lines 151-170): a response with its status
\* and text, or an abort, an error, a timeout. The text is no JSON, JSON without
\* query.pages, a page with id -1, or a page whose pageprops.wikibase_item is
\* Q<item>, item 0 standing for a page without it.
ServiceAnswers ==
    [event : {"load"}, httpError : BOOLEAN, body : {"notJson", "noQuery", "missing"},
     item : {0}]
    \cup [event : {"load"}, httpError : BOOLEAN, body : {"page"}, item : 0..MaxId]
    \cup [event : {"abort", "error", "timeout"}, httpError : {FALSE}, body : {"none"},
          item : {0}]

Returned(url) == [url |-> url, message |-> ""]

Thrown(message) == [url |-> NoUrl, message |-> message]

\* Lines 147-174: the promise of fetchURL rejects with one of four messages or
\* resolves with the response.
fetchURL(answer) ==
    IF answer.event = "abort" THEN Thrown("The request was aborted.")
    ELSE IF answer.event = "error" THEN Thrown("There was an error with the request.")
    ELSE IF answer.event = "timeout" THEN Thrown("The request timed out.")
    ELSE IF answer.httpError THEN Thrown("HTTP error! Status")
    ELSE Returned(NoUrl)

\* Faulty variant: a page with id -1 is read like any other page.
ReadResponse_NoMissing(answer) ==
    IF answer.body \in {"notJson", "noQuery"} THEN Thrown("SyntaxError")
    ELSE IF answer.item = 0
         THEN Thrown("No Wikidata entity found for this Wikipedia article")
    ELSE Returned(WikidataUrl(answer.item))

\* Lines 276-293: what the try block does with a response.
ReadResponse(answer) ==
    IF answer.body = "notJson" THEN Thrown("SyntaxError")
    ELSE IF answer.body = "noQuery" THEN Thrown("TypeError")
    ELSE IF answer.body = "missing" THEN Thrown("Wikipedia page not found")
    ELSE IF answer.item = 0
         THEN Thrown("No Wikidata entity found for this Wikipedia article")
    ELSE Returned(WikidataUrl(answer.item))

\* Lines 294-297: whatever was thrown in the try block is thrown again with a
\* prefix before its message.
Rethrown(message) == Thrown("Failed to get Wikidata ID: " \o message)

\* Lines 274-297.
AfterFetch(answer) ==
    LET fetched == fetchURL(answer)
        read == IF fetched.message # "" THEN fetched ELSE ReadResponse(answer)
    IN IF read.message # "" THEN Rethrown(read.message) ELSE read

\* Faulty variant: a URL that does not parse is looked up all the same.
IssuesLookup_Always(form) == TRUE

\* Lines 266-269: the lookup is made when the URL parses.
IssuesLookup(form) == parseWikipediaUrl(form)

\* Faulty variant: a failed request is made again.
CatchRetries_Request(answer) == answer.event # "load" \/ answer.httpError

\* Lines 294-297: the catch block throws; fetchURL is not called again.
CatchRetries(answer) == FALSE

\* Lines 265-275: a call of getWikidataUrlFromWikipedia up to its first await.
Resolve ==
    /\ Len(wikipediaUrl) < MaxCalls
    /\ \E ref \in References :
        /\ wikipediaUrl' = Append(wikipediaUrl, ref)
        /\ response' = Append(response, NoAnswer)
        /\ IF IssuesLookup(ref.form)
           THEN /\ resolvePc' = Append(resolvePc, "fetching")
                /\ queries' = Append(queries, 1)
                /\ queryAt' = Append(queryAt, now)
                /\ resolveResult' = Append(resolveResult, Returned(NoUrl))
           ELSE /\ resolvePc' = Append(resolvePc, "thrown")
                /\ queries' = Append(queries, 0)
                /\ queryAt' = Append(queryAt, -1)
                /\ resolveResult' =
                      Append(resolveResult, Thrown("Invalid Wikipedia URL format"))
    /\ UNCHANGED besideResolve

\* Lines 275-297: the request of a call settles and the call returns or throws.
FetchSettles ==
    /\ \E call \in 1..Len(wikipediaUrl), answer \in ServiceAnswers :
        /\ resolvePc[call] = "fetching"
        /\ response' = [response EXCEPT ![call] = answer]
        /\ IF CatchRetries(answer)
           THEN /\ queries' = [queries EXCEPT ![call] = @ + 1]
                /\ queryAt' = [queryAt EXCEPT ![call] = now]
                /\ UNCHANGED <<resolvePc, resolveResult>>
           ELSE /\ resolveResult' = [resolveResult EXCEPT ![call] = AfterFetch(answer)]
                /\ resolvePc' = [resolvePc EXCEPT ![call] =
                                    IF AfterFetch(answer).message = "" THEN "returned"
                                    ELSE "thrown"]
                /\ UNCHANGED <<queries, queryAt>>
    /\ UNCHANGED <<wikipediaUrl, besideResolve>>

InitResolve == OtherPage /\ RateLimiterUnused /\ NoResolution /\ NoWait /\ NoInline

NextResolve ==
    \/ Resolve
    \/ FetchSettles
    \/ Tick

SpecResolve == InitResolve /\ [][NextResolve]_vars
\* ------------------------------------------------------------ waitForElement
WaitKinds == {"appearance", "removal"}

\* Faulty variant: both waits look for the element.
ConditionMet_Found(kind, found) == found

\* What a callback checks: line 435 and line 476.
ConditionMet(kind, found) == IF kind = "appearance" THEN found ELSE ~found

\* Faulty variant: the observer is told of no change.
Notified_Never(change) == FALSE

\* Lines 448 and 489: the observer is told of nodes added or removed below the
\* parent, not of attributes that change.
Notified(change) == change = "childList"

\* Faulty variant: the observer stays connected.
Disconnect_Kept(connected) == connected

\* Lines 437, 444, 452, 477 and 484: disconnect() leaves the observer
\* unconnected and drops the records queued for it.
Disconnect(connected) == FALSE

\* Faulty variant: the timer is left running.
ClearTimeout_Kept(t) == t

\* Lines 438, 453 and 478: clearTimeout(timer).
ClearTimeout(t) == IF t = "armed" THEN "cleared" ELSE t

\* Settling a promise that has settled changes nothing.
Settle(state, how) == IF state = "pending" THEN how ELSE state

\* Lines 432-458 and 467-490: the function is called and the executor runs.
\* waitForElement arms the timer and connects the observer before it checks;
\* waitForElementRemoval checks first and returns without either.
CallWait ==
    /\ waitKind = "none"
    /\ \E kind \in WaitKinds, timeout \in 1..MaxTimeout :
        /\ waitKind' = kind
        /\ waitTimeout' = timeout
        /\ IF ConditionMet(kind, matches)
           THEN /\ promise' = "resolved"
                /\ resolveCalls' = resolveCalls + 1
                /\ observing' = (kind = "appearance" /\ Disconnect(TRUE))
                /\ timer' = IF kind = "appearance" THEN ClearTimeout("armed") ELSE "none"
           ELSE /\ promise' = "pending"
                /\ resolveCalls' = resolveCalls
                /\ observing' = TRUE
                /\ timer' = "armed"
    /\ heldAtCall' = matches
    /\ UNCHANGED <<matches, heldBy, records, waitElapsed, rejectCalls, lateCallbacks,
                   mutations, cameToHold, timeoutHeld, besideWait>>

\* The page changes: nodes are added or removed, or an attribute changes, and
\* the element matches or not afterwards. A connected observer that is told of
\* the change has its callback queued.
Mutate ==
    /\ waitKind # "none"
    /\ mutations < MaxMutations
    /\ mutations' = mutations + 1
    /\ \E change \in {"childList", "attributes"}, found \in BOOLEAN :
        /\ matches' = found
        /\ heldBy' = IF found # matches THEN change ELSE heldBy
        /\ records' = (records \/ (observing /\ Notified(change)))
        /\ cameToHold' = (cameToHold \/ (/\ found
                                         /\ ~matches
                                         /\ promise = "pending"
                                         /\ waitElapsed < waitTimeout))
    /\ UNCHANGED <<waitKind, waitTimeout, observing, timer, waitElapsed, promise,
                   resolveCalls, rejectCalls, lateCallbacks, heldAtCall, timeoutHeld,
                   besideWait>>

\* Lines 434-441 and 475-481: the callback of the observer runs.
ObserverCallback ==
    /\ observing
    /\ records
    /\ records' = FALSE
    /\ lateCallbacks' = IF promise = "pending" THEN lateCallbacks ELSE lateCallbacks + 1
    /\ IF ConditionMet(waitKind, matches)
       THEN /\ observing' = Disconnect(observing)
            /\ timer' = ClearTimeout(timer)
            /\ resolveCalls' = resolveCalls + 1
            /\ promise' = Settle(promise, "resolved")
       ELSE UNCHANGED <<observing, timer, resolveCalls, promise>>
    /\ UNCHANGED <<waitKind, waitTimeout, matches, heldBy, waitElapsed, rejectCalls,
                   mutations, heldAtCall, cameToHold, timeoutHeld, besideWait>>

\* Lines 443-446 and 483-486: the callback of the timer runs: never before the
\* timeout has elapsed, and, a task, never before a queued observer callback,
\* a microtask of the task that changed the page.
TimerFires ==
    /\ timer = "armed"
    /\ waitElapsed >= waitTimeout
    /\ ~records
    /\ timer' = "fired"
    /\ observing' = Disconnect(observing)
    /\ rejectCalls' = rejectCalls + 1
    /\ promise' = Settle(promise, "rejected")
    /\ lateCallbacks' = IF promise = "pending" THEN lateCallbacks ELSE lateCallbacks + 1
    /\ timeoutHeld' = IF matches THEN heldBy ELSE "no"
    /\ UNCHANGED <<waitKind, waitTimeout, matches, heldBy, records, waitElapsed,
                   resolveCalls, mutations, heldAtCall, cameToHold, besideWait>>

\* Time passes while the timer runs.
WaitTick ==
    /\ timer = "armed"
    /\ waitElapsed < waitTimeout
    /\ waitElapsed' = waitElapsed + 1
    /\ UNCHANGED <<waitKind, waitTimeout, matches, heldBy, observing, records, timer,
                   promise, resolveCalls, rejectCalls, lateCallbacks, mutations,
                   heldAtCall, cameToHold, timeoutHeld, besideWait>>

InitWait ==
    /\ OtherPage
    /\ NoInline
    /\ RateLimiterUnused
    /\ NoResolution
    /\ NotWaiting
    /\ matches \in BOOLEAN

NextWait ==
    \/ CallWait
    \/ Mutate
    \/ ObserverCallback
    \/ TimerFires
    \/ WaitTick

SpecWait == InitWait /\ [][NextWait]_vars
\* ------------------------------------------------------------ inline editor
\* Lines 393-423 and 339-357: the editor is rendered with a row that shows a
\* Wikipedia link, and addFixerUpperButton has given the row its button.
InitInline ==
    /\ OtherPage
    /\ InitRun
    /\ RateLimiterUnused
    /\ NoResolution
    /\ NoWait
    /\ urlElement = TRUE
    /\ href \in 1..MaxHrefs
    /\ oldLink = 0
    /\ newLink = 0
    /\ fixerUpperButton = "enabled"
    /\ observers = << >>
    /\ lookupFor = << >>
    /\ lookupState = << >>
    /\ editItemClicks = 0
    /\ rawUrl = 0
    /\ inlineError = FALSE
    /\ cleared = FALSE

FixCalls == 1..Len(observers)

\* Lines 300-323: the button is clicked for a row that shows its link. A new
\* observer is connected; with a stored newLink the edit control is clicked and
\* the function returns, otherwise the button is disabled and the lookup is made.
FixLink ==
    /\ fixerUpperButton = "enabled"
    /\ urlElement
    /\ Len(observers) < MaxTriggers
    /\ observers' = Append(observers, TRUE)
    /\ cleared' = FALSE
    /\ IF newLink # 0
       THEN /\ editItemClicks' = editItemClicks + 1
            /\ lookupFor' = Append(lookupFor, 0)
            /\ lookupState' = Append(lookupState, "none")
            /\ UNCHANGED <<fixerUpperButton, inlineError>>
       ELSE /\ fixerUpperButton' = "disabled"
            /\ inlineError' = FALSE
            /\ lookupFor' = Append(lookupFor, href)
            /\ lookupState' = Append(lookupState, "inflight")
            /\ UNCHANGED editItemClicks
    /\ UNCHANGED <<urlElement, href, oldLink, newLink, rawUrl, besideInline>>

\* Lines 334-336: the button of the row, if the row still has one, is enabled.
Reenabled(button) == IF button = "absent" THEN "absent" ELSE "enabled"

\* Lines 324-328 and 334-336: the lookup of a call resolves. The attributes are
\* set from the link the row shows now and from the answer; reading the href of a
\* link that is no longer there throws, and the catch of lines 329-333 runs.
LookupResolves ==
    /\ \E t \in FixCalls :
        /\ lookupState[t] = "inflight"
        /\ lookupState' = [lookupState EXCEPT ![t] = "resolved"]
        /\ IF urlElement
           THEN /\ oldLink' = href
                /\ newLink' = lookupFor[t]
                /\ editItemClicks' = editItemClicks + 1
                /\ UNCHANGED <<observers, inlineError>>
           ELSE /\ inlineError' = TRUE
                /\ observers' = [observers EXCEPT ![t] = FALSE]
                /\ UNCHANGED <<oldLink, newLink, editItemClicks>>
    /\ fixerUpperButton' = Reenabled(fixerUpperButton)
    /\ UNCHANGED <<urlElement, href, lookupFor, rawUrl, cleared, besideInline>>

\* Lines 329-336: the lookup of a call fails.
LookupRejects ==
    /\ \E t \in FixCalls :
        /\ lookupState[t] = "inflight"
        /\ lookupState' = [lookupState EXCEPT ![t] = "rejected"]
        /\ observers' = [observers EXCEPT ![t] = FALSE]
    /\ inlineError' = TRUE
    /\ fixerUpperButton' = Reenabled(fixerUpperButton)
    /\ UNCHANGED <<urlElement, href, oldLink, newLink, lookupFor, editItemClicks,
                   rawUrl, cleared, besideInline>>

Connected == {t \in FixCalls : observers[t]}

\* Lines 302-314: the site adds the edit dialog to the popover root. The callback
\* of the first connected observer writes the row's newLink into the dialog,
\* clicks its positive button and disconnects; the callbacks of the others do
\* the same if the dialog is still there, or throw at line 306 and stay connected.
EnvDialogAdded ==
    /\ Connected # {}
    /\ \E ran \in SUBSET Connected :
        /\ \E t \in ran : \A u \in Connected : t <= u
        /\ observers' = [t \in FixCalls |-> observers[t] /\ t \notin ran]
    /\ rawUrl' = newLink
    /\ UNCHANGED <<urlElement, href, oldLink, newLink, fixerUpperButton, lookupFor,
                   lookupState, editItemClicks, inlineError, cleared, besideInline>>

\* Lines 410-420: the site removes the a.url element of the row. The converter
\* cell is removed if it is the next sibling of the link's cell; the attributes
\* and the error message of the row are removed.
EnvUrlRemoved ==
    /\ urlElement
    /\ urlElement' = FALSE
    /\ \E sibling \in BOOLEAN :
        fixerUpperButton' = IF sibling THEN "absent" ELSE fixerUpperButton
    /\ oldLink' = 0
    /\ newLink' = 0
    /\ inlineError' = FALSE
    /\ cleared' = TRUE
    /\ UNCHANGED <<href, observers, lookupFor, lookupState, editItemClicks, rawUrl,
                   besideInline>>

\* Lines 402-409 and 339-357: the site adds an a.url element with a Wikipedia URL
\* to the row; addFixerUpperButton gives the row a button if it has none.
EnvUrlAdded ==
    /\ ~urlElement
    /\ urlElement' = TRUE
    /\ href' \in 1..MaxHrefs
    /\ fixerUpperButton' =
            IF fixerUpperButton = "absent" THEN "enabled" ELSE fixerUpperButton
    /\ UNCHANGED <<oldLink, newLink, observers, lookupFor, lookupState,
                   editItemClicks, rawUrl, inlineError, cleared, besideInline>>

NextInline ==
    \/ FixLink
    \/ LookupResolves
    \/ LookupRejects
    \/ EnvDialogAdded
    \/ EnvUrlRemoved
    \/ EnvUrlAdded

SpecInline == InitInline /\ [][NextInline]_vars
\* ------------------------------------------------------------ properties
RunEnded == pc = "done" /\ runs > 0

\* The verdict of a run has been computed (line 630 or line 697 has run, or
\* line 697 is the next step).
VerdictComputed ==
    /\ runs > 0
    /\ \/ conversionSuccessful /\ pc \in {"finally", "submitDelay", "done"}
       \/ ~conversionSuccessful /\ pc \in {"removeVerdict", "submitDelay", "done"}

\* C1: in a run where resolution succeeds and at least one item fails conversion,
\* allRelationshipsHandled is false and the submit control is never invoked.
C1_FailedItemLeavesUnsubmitted ==
    (RunEnded /\ lookupOk /\ conversionSuccessful
        /\ \E i \in Items : outcome[i] = "Failed")
    => (~allRelationshipsHandled /\ submitClicks = 0)

AllThroughRemoval ==
    \A i \in Items :
        /\ removeButton[i] # "unqueried"
        /\ removeClicks[i] = (IF removeButton[i] = "found" THEN 1 ELSE 0)
        /\ outcome[i] = (IF removeButton[i] = "found" THEN "Removed" ELSE "Failed")
        /\ editClicks[i] = 0

\* C3 as stated: in a run where resolution fails every item is driven through
\* removal mode, and the submit control is invoked iff every item was Removed.
C3_SubmitIffAllRemoved ==
    (RunEnded /\ ~lookupOk)
    => /\ AllThroughRemoval
       /\ submitClicks = 1 <=> \A i \in Items : outcome[i] = "Removed"

\* C3 amended: the submit control is invoked iff every item was Removed and the
\* page has a submit control; it is looked up only when every item was Removed.
C3_SubmitIffAllRemovedAndButton ==
    (RunEnded /\ ~lookupOk)
    => /\ AllThroughRemoval
       /\ submitClicks = 1 <=> /\ \A i \in Items : outcome[i] = "Removed"
                               /\ submitButton = "found"
       /\ submitClicks # 1 => submitClicks = 0
       /\ (\E i \in Items : outcome[i] # "Removed") => submitButton = "unqueried"

C3_Witness ==
    /\ RunEnded
    /\ ~lookupOk
    /\ \E i, j \in Items : outcome[i] = "Removed" /\ removeButton[j] = "null"
    /\ submitClicks = 0

\* C4: once the guard has observed the pending-edit marker the run is refused with
\* the PendingConflict error: no lookup call, no rewrite of the reference and no
\* click of an edit, remove, commit or submit control, then or later. A marker
\* shown while the guard waits is never missed.
C4_PendingConflictRefusesRun ==
    /\ hasPendingEdits
       => /\ pc = "done"
          /\ errorShown = "PendingConflict"
          /\ runs = 0
          /\ lookupCalls = 0
          /\ isWikipediaLink(urlForm)
          /\ convertButton = "absent"
          /\ commitClicks = 0
          /\ submitClicks = 0
          /\ \A i \in Items : editClicks[i] = 0 /\ removeClicks[i] = 0
    /\ pc = "guardWait" => pendingMarker # "shown"

C4_Witness ==
    /\ hasPendingEdits
    /\ pc = "done"
    /\ pendingMarker = "shown"
    /\ NumItems >= 1
    /\ parseWikipediaUrl(urlForm)

\* The converter has returned for item i: in convert mode its edit control was
\* clicked and the loop is between two items or over; in removal mode its remove
\* control was looked up and the 300 ms after a click are over.
ConverterReturned(i) ==
    \/ /\ editClicks[i] = 1
       /\ pc \in {"rowHead", "itemHead", "finally", "submitDelay", "done"}
    \/ /\ removeButton[i] # "unqueried"
       /\ pc \in {"removeItem", "removeVerdict", "submitDelay", "done"}

Terminal == {"Converted", "Removed", "Failed"}

\* C5 as stated (its state part): after the converter returns for an item the item
\* has a terminal outcome, and the verdict is computed only when no item is Pending.
C5_NoPendingAtVerdict ==
    /\ \A i \in Items : ConverterReturned(i) => outcome[i] \in Terminal
    /\ VerdictComputed => \A i \in Items : outcome[i] \in Terminal

\* C5 amended: after the converter returns for an item the item has a terminal
\* outcome; when the verdict is computed the only items still Pending are items
\* that had no edit control in convert mode (counted as handled without a
\* conversion); an outcome once set is never changed.
C5_TerminalOutcomeOnceSet ==
    /\ [](/\ \A i \in Items : ConverterReturned(i) => outcome[i] \in Terminal
          /\ VerdictComputed
               => \A i \in Items :
                     outcome[i] = "Pending"
                        => conversionSuccessful /\ editButton[i] = "null")
    /\ [][\A i \in Items : outcome[i] # "Pending" => outcome'[i] = outcome[i]]_vars

\* An item failed because its dialog never appeared, after another was converted.
C5_Witness ==
    /\ RunEnded
    /\ lastItem # 0
    /\ outcome[lastItem] = "Failed"
    /\ dialogElement = 0
    /\ \E j \in Items : outcome[j] = "Converted"

\* C6: a failure while one item is converted is caught at item level: resolved
\* stays true, the catch block of line 636 and the removal branch are never
\* entered, and when the loop is over every item has been processed.
C6_ItemFailureStaysLocal ==
    /\ (lookupOk /\ editNoteInput = "found")
       => /\ conversionSuccessful
          /\ pc # "outerCatch"
          /\ errorShown = "none"
          /\ \A i \in Items : removeButton[i] = "unqueried" /\ removeClicks[i] = 0
    /\ (conversionSuccessful /\ pc \in {"finally", "submitDelay", "done"})
       => /\ relationshipsProcessedCount = NumItems
          /\ \A i \in Items :
                /\ editButton[i] # "unqueried"
                /\ editButton[i] = "found"
                     => editClicks[i] = 1 /\ outcome[i] \in {"Converted", "Failed"}

\* The first item timed out and the second one was still converted.
C6_Witness ==
    /\ RunEnded
    /\ conversionSuccessful
    /\ NumItems >= 2
    /\ outcome[1] = "Failed"
    /\ outcome[2] = "Converted"

\* C7: an item for which no option with an accepted label was found, or whose
\* dialog had no commit control, is Failed and is not counted as handled.
C7_UnmatchedItemIsFailed ==
    (/\ lastItem # 0
     /\ outcome[lastItem] # "Pending"
     /\ doneButton # "unqueried"
     /\ ~wikidataOption \/ doneButton = "null")
    => /\ outcome[lastItem] = "Failed"
       /\ RunEnded => ~allRelationshipsHandled

\* C8: whenever an edit control is clicked no dialog is present, and the dialog
\* handled for an item is never the dialog of another item.
C8_NoStaleDialog == ~staleAtClick /\ ~staleHandled

\* ------------------------------------------------------------ rate limiter
Ops == 1..Len(submitted)

Started == {op \in Ops : opStart[op] # -1}

\* C9: with one lane, operations start in submission order and the starts of any
\* two of them are at least the interval apart for each submission between them:
\* the last of M starts at least (M-1) intervals after the first.
C9_SingleLaneSpacing ==
    requestsPerInterval = 1
    => \A a, b \in Ops :
          (a < b /\ b \in Started)
          => /\ a \in Started
             /\ opStart[b] - opStart[a] >= (b - a) * interval

\* Three operations submitted together, all started.
C9_Witness ==
    /\ requestsPerInterval = 1
    /\ interval > 1
    /\ Len(submitted) >= 3
    /\ \A op \in 1..3 : submitted[op].at = 0 /\ op \in Started

\* C10: with K > 1 lanes the n-th call goes to lane n mod K, operations of one
\* lane start in submission order, and fewer than K + 1 operations start in any
\* window shorter than the interval.
C10_RoundRobinLanes ==
    requestsPerInterval > 1
    => /\ \A op \in Ops : submitted[op].lane = op % requestsPerInterval
       /\ \A a, b \in Ops :
             (a < b /\ submitted[a].lane = submitted[b].lane /\ b \in Started)
             => a \in Started /\ opStart[a] <= opStart[b]
       /\ \A t \in 0..MaxTime :
             Cardinality({op \in Started :
                             t <= opStart[op] /\ opStart[op] < t + interval})
                <= requestsPerInterval

\* Two lanes: two operations start together, the third waits for its lane.
C10_Witness ==
    /\ requestsPerInterval = 2
    /\ interval > 1
    /\ Len(submitted) >= 3
    /\ \A op \in 1..3 : submitted[op].at = 0 /\ op \in Started
    /\ opStart[1] = 0
    /\ opStart[2] = 0
    /\ opStart[3] = interval

\* C11: an operation that rejected does not block its lane: a later operation of
\* the same lane starts no earlier than the interval after the failed one started,
\* and once the delay behind the failed one has resolved it can start.
C11_FailureKeepsLane ==
    \A a, b \in Ops :
        (a < b /\ submitted[a].lane = submitted[b].lane /\ opResult[a] = "failure")
        => /\ b \in Started => opStart[b] >= opStart[a] + interval
           /\ (/\ laneWaiting[submitted[b].lane] # << >>
               /\ Head(laneWaiting[submitted[b].lane]) = b
               /\ laneElapsed[submitted[b].lane] >= interval)
              => LaneReady(submitted[b].lane)

\* An operation failed while the next one of its lane was waiting, and that one
\* has started since.
C11_Witness ==
    /\ Len(submitted) >= 2
    /\ submitted[1].lane = submitted[2].lane
    /\ submitted[2].at = 0
    /\ opResult[1] = "failure"
    /\ opResult[2] = "running"
    /\ opStart[2] = opStart[1] + interval

\* C12: every operation submitted is started, once only, and the promise of its
\* call settles with the result of that operation and of no other.
C12_EveryCallSettles ==
    /\ [](\A op \in Ops :
            /\ opRuns[op] <= 1
            /\ settled[op].kind # "pending"
               => settled[op].of = op /\ settled[op].kind = opResult[op])
    /\ \A call \in 1..MaxOps :
          [](Len(submitted) >= call
             => <>(/\ Len(submitted) >= call
                   /\ opRuns[call] = 1
                   /\ settled[call].kind # "pending"))

\* The first call rejected, the second of its lane resolved, a third waits.
C12_Witness ==
    /\ Len(submitted) >= 2
    /\ submitted[1].lane = submitted[2].lane
    /\ opResult[2] = "value"
    /\ laneWaiting[submitted[2].lane] # << >>
    /\ settled[1] = [of |-> 1, kind |-> "failure"]
    /\ settled[2] = [of |-> 2, kind |-> "value"]

Calls == 1..Len(wikipediaUrl)

\* The messages of the errors a call can end with, by what went wrong.
InvalidReferenceFormat == "Invalid Wikipedia URL format"
NotFound == "Failed to get Wikidata ID: Wikipedia page not found"
NoMappingAvailable ==
    "Failed to get Wikidata ID: No Wikidata entity found for this Wikipedia article"
TransportError ==
    {"Failed to get Wikidata ID: The request was aborted.",
     "Failed to get Wikidata ID: There was an error with the request.",
     "Failed to get Wikidata ID: The request timed out.",
     "Failed to get Wikidata ID: HTTP error! Status"}

TransportFailed(answer) == answer.event \in {"abort", "error", "timeout"} \/ answer.httpError

\* C13: every lookup request is made through the rate limiter, so any two of
\* them start at least the interval apart.
C13_LookupsRateLimited ==
    /\ \A call \in Calls : queries[call] > 0 => Len(submitted) > 0
    /\ \A a, b \in Calls :
          (a < b /\ queries[a] > 0 /\ queries[b] > 0)
          => queryAt[b] - queryAt[a] >= interval

\* C14: resolving what a successful resolution returned succeeds with that same
\* URL.
C14_ResolveIdempotent ==
    \A a, b \in Calls :
        (/\ resolvePc[a] = "returned"
         /\ wikipediaUrl[b] = resolveResult[a].url
         /\ resolvePc[b] # "fetching")
        => resolvePc[b] = "returned" /\ resolveResult[b] = resolveResult[a]

\* How a call that was answered ends when the answer is a failure.
ClassifiedFailures(call) ==
    LET answer == response[call]
        result == resolveResult[call]
    IN /\ (~TransportFailed(answer) /\ answer.body = "missing")
          => resolvePc[call] = "thrown" /\ result.message = NotFound
       /\ (~TransportFailed(answer) /\ answer.body = "page" /\ answer.item = 0)
          => resolvePc[call] = "thrown" /\ result.message = NoMappingAvailable
       /\ TransportFailed(answer)
          => resolvePc[call] = "thrown" /\ result.message \in TransportError
       /\ NotFound # NoMappingAvailable
       /\ NotFound \notin TransportError
       /\ NoMappingAvailable \notin TransportError

\* C15 as stated: the service reporting the page absent gives NotFound, metadata
\* without the item gives NoMappingAvailable, both differ from each other and from
\* TransportError, and every other response gives the Wikidata URL of its item.
C15_OtherResponsesGiveUrl ==
    \A call \in Calls :
        response[call].event # "none"
        => /\ ClassifiedFailures(call)
           /\ (/\ ~TransportFailed(response[call])
               /\ response[call].body # "missing"
               /\ ~(response[call].body = "page" /\ response[call].item = 0))
              => /\ resolvePc[call] = "returned"
                 /\ resolveResult[call].url = WikidataUrl(response[call].item)

\* C15, amended: the Wikidata URL is the result for a response carrying a page
\* with its item; a response that is no JSON or has no query.pages fails with an
\* error that is none of the three.
C15_PageResponsesGiveUrl ==
    \A call \in Calls :
        response[call].event # "none"
        => /\ ClassifiedFailures(call)
           /\ (/\ ~TransportFailed(response[call])
               /\ response[call].body = "page"
               /\ response[call].item > 0)
              => /\ resolvePc[call] = "returned"
                 /\ resolveResult[call].url = WikidataUrl(response[call].item)
           /\ (/\ ~TransportFailed(response[call])
               /\ response[call].body \in {"notJson", "noQuery"})
              => /\ resolvePc[call] = "thrown"
                 /\ resolveResult[call].message
                       \notin {NotFound, NoMappingAvailable} \cup TransportError

\* One call ended with NotFound, another with NoMappingAvailable.
C15_Witness ==
    /\ Len(wikipediaUrl) >= 2
    /\ resolveResult[1].message = NotFound
    /\ resolveResult[2].message = NoMappingAvailable

\* C16: a call with a URL that is no Wikipedia article URL throws
\* InvalidReferenceFormat and has made no request.
C16_InvalidFormatWithoutLookup ==
    \A call \in Calls :
        wikipediaUrl[call].form \in {"WikipediaOther", "Wikidata", "Other"}
        => /\ resolvePc[call] = "thrown"
           /\ resolveResult[call].message = InvalidReferenceFormat
           /\ queries[call] = 0
           /\ response[call] = NoAnswer

\* A call with a Wikipedia URL that is no article URL has thrown, after a call
\* with an article URL made its request.
C16_Witness ==
    /\ Len(wikipediaUrl) >= 2
    /\ queries[1] = 1
    /\ wikipediaUrl[2].form = "WikipediaOther"
    /\ resolvePc[2] = "thrown"

\* C17: a call makes one request, never a second one, and a request that failed
\* makes the call throw TransportError.
C17_OneQueryNoRetry ==
    \A call \in Calls :
        /\ queries[call] <= 1
        /\ wikipediaUrl[call].form = "WikipediaArticle" => queries[call] = 1
        /\ TransportFailed(response[call])
           => /\ resolvePc[call] = "thrown"
              /\ resolveResult[call].message \in TransportError
              /\ queries[call] = 1

\* The request of a call timed out, the call has thrown.
C17_Witness ==
    /\ Len(wikipediaUrl) >= 1
    /\ response[1].event = "timeout"
    /\ resolvePc[1] = "thrown"
    /\ queries[1] = 1

Settled == promise \in {"resolved", "rejected"}

\* C18: waitForElement rejects when the timer fires first, and once its promise
\* has settled the observer is unconnected with nothing queued, the timer is not
\* running, and no callback has run since.
C18_SettledWaiterReleased ==
    waitKind = "appearance"
    => /\ promise = "rejected"
          => timer = "fired" /\ waitElapsed >= waitTimeout /\ resolveCalls = 0
       /\ Settled => ~observing /\ ~records /\ timer # "armed" /\ lateCallbacks = 0

\* The wait timed out and nodes that match were added afterwards.
C18_Witness ==
    /\ waitKind = "appearance"
    /\ promise = "rejected"
    /\ timeoutHeld = "no"
    /\ matches
    /\ heldBy = "childList"

\* C19: for both waits, resolve and reject are never both called, whichever of
\* the notification and the timer comes first.
C19_ResolveOrTimeout ==
    /\ resolveCalls + rejectCalls <= 1
    /\ promise = "resolved" => resolveCalls = 1 /\ rejectCalls = 0
    /\ promise = "rejected" => rejectCalls = 1 /\ resolveCalls = 0
    /\ promise = "pending" => resolveCalls = 0 /\ rejectCalls = 0

\* A wait for removal resolved by a notification that came when the timer was due.
C19_Witness ==
    /\ waitKind = "removal"
    /\ promise = "resolved"
    /\ waitElapsed = waitTimeout
    /\ timer = "cleared"
    /\ mutations > 1

\* C20 as stated: waitForElement resolves at once when the element matches at
\* the call, and never rejects when the element came to match before the timeout
\* had elapsed.
C20_NoTimeoutOnceHeld ==
    waitKind = "appearance"
    => /\ heldAtCall => promise = "resolved" /\ rejectCalls = 0
       /\ ~(promise = "rejected" /\ cameToHold)

\* C20, amended: waitForElement resolves at once when the element matches at the
\* call; while it waits, an element that matches through added nodes has a check
\* queued, and a rejection finds no element or one that matches through a changed
\* attribute.
C20_ResolvesOnAddedNodes ==
    waitKind = "appearance"
    => /\ heldAtCall => promise = "resolved" /\ rejectCalls = 0 /\ timer # "armed"
       /\ (promise = "pending" /\ matches /\ heldBy = "childList") => records
       /\ promise = "rejected" => timeoutHeld \in {"no", "attributes"}

\* The element did not match at the call, nodes were added before the timeout
\* and the wait resolved.
C20_Witness ==
    /\ waitKind = "appearance"
    /\ ~heldAtCall
    /\ cameToHold
    /\ heldBy = "childList"
    /\ promise = "resolved"
    /\ waitElapsed < waitTimeout

RemovalDone ==
    /\ runs > 0
    /\ ~conversionSuccessful
    /\ pc \in {"removeVerdict", "submitDelay", "done"}

\* C22: in removal mode an item with a remove control has it clicked once and is
\* Removed, an item without one is Failed with no click, and when the loops have
\* ended every item has been through one or the other.
C22_RemovalModePerItem ==
    /\ \A i \in Items :
          /\ removeClicks[i] <= 1
          /\ removeButton[i] = "found" => removeClicks[i] = 1 /\ outcome[i] = "Removed"
          /\ removeButton[i] = "null" => removeClicks[i] = 0 /\ outcome[i] = "Failed"
          /\ removeButton[i] = "unqueried" => removeClicks[i] = 0
    /\ RemovalDone => \A i \in Items : removeButton[i] # "unqueried"

\* The first item had no remove control, the second was removed after it.
C22_Witness ==
    /\ RemovalDone
    /\ NumItems >= 2
    /\ removeButton[1] = "null"
    /\ outcome[1] = "Failed"
    /\ removeClicks[2] = 1
    /\ outcome[2] = "Removed"

\* C23: in the catch block of an item the Done button is clicked only with a
\* dialog present, once at most; the edit control of an item is clicked once at
\* most in a run, a Done button no more than twice for each edit click; and the
\* item of a catch block is Failed and stays so, the dialog closed or not.
C23_SingleRecovery ==
    /\ [](/\ \A i \in Items :
               /\ recoveryClicks[i] <= 1
               /\ editClicks[i] <= 1
               /\ recoveryClicks[i] = 1 => editClicks[i] = 1 /\ outcome[i] # "Converted"
          /\ commitClicks <= 2 * Cardinality({i \in Items : editClicks[i] = 1}))
    /\ [][\A i \in Items :
             /\ recoveryClicks'[i] > recoveryClicks[i] => dialog # 0 /\ pc = "recover"
             /\ (pc = "recoverEnd" /\ pc' # "recoverEnd" /\ i = Cur)
                => outcome'[i] = "Failed"
             /\ outcome[i] = "Failed" => outcome'[i] = "Failed"]_vars

\* The Done button was clicked in the catch block of the first item, the dialog
\* did not close, and the item is Failed.
C23_Witness ==
    /\ NumItems >= 1
    /\ recoveryClicks[1] = 1
    /\ outcome[1] = "Failed"
    /\ dialog = 1

\* C24: a run whose lookup has been answered, or was not made for a URL that does
\* not parse, comes to its end with the convert button enabled again, whatever
\* the site does with the dialogs and whichever controls are missing.
C24_RunTerminates ==
    (runs > 0 /\ pc # "lookup") ~> (pc = "done" /\ convertButton = "enabled")

\* A run has ended with the button enabled after the dialog of its one item was
\* never opened and that of another never closed.
C24_Witness ==
    /\ RunEnded
    /\ convertButton = "enabled"
    /\ NumItems >= 2
    /\ requested # {}
    /\ dialog # 0

\* C25: a run that ends with conversionSuccessful false has left the URL field as
\* it was and has clicked no edit control, and no run both rewrites the URL field
\* and clicks a remove control.
C25_FailedRunLeavesReference ==
    /\ (RunEnded /\ ~conversionSuccessful)
        => /\ urlForm # "Wikidata"
           /\ \A i \in Items : editClicks[i] = 0
    /\ ~(lookupOk /\ \E i \in Items : removeClicks[i] > 0)

\* C26: the convert button is disabled whenever the run clicks a remove control or
\* the submit button, so that no second run can be started before the last of
\* these clicks.
C26_DisabledUntilLastClick ==
    [][((\E i \in Items : removeClicks'[i] > removeClicks[i])
            \/ submitClicks' > submitClicks)
        => convertButton = "disabled"]_vars

\* The loops of lines 586-629 are running or have run to their end.
InConvertLoop ==
    pc \in {"rowHead", "itemHead", "waitDialog", "handle", "selectOption", "clickDone",
            "doneDelay", "waitRemoval", "converted", "recover", "recoverDelay",
            "recoverWait", "recoverEnd"}

LoopCompleted ==
    runs > 0 /\ conversionSuccessful /\ editorExists
        /\ pc \in {"finally", "submitDelay", "done"}

\* C27: in the conversion loops the counter of processed items goes up by one
\* exactly when the loop leaves an item, on each of the three branches; it is the
\* number of items left behind, never above the total, and equal to the total
\* (the number of items) when the loops have run to their end.
C27_ProcessedOncePerItem ==
    /\ [](/\ relationshipsProcessedCount <= totalRelationshipsToProcess
          /\ InConvertLoop =>
                /\ relationshipsProcessedCount
                        = (IF pc = "rowHead" THEN SumTo(rows, r - 1) ELSE Cur - 1)
                /\ totalRelationshipsToProcess
                        = SumTo(rows, IF pc = "rowHead" THEN r - 1 ELSE r)
          /\ LoopCompleted =>
                /\ relationshipsProcessedCount = totalRelationshipsToProcess
                /\ relationshipsProcessedCount = NumItems)
    /\ [][/\ relationshipsProcessedCount' # relationshipsProcessedCount
                => /\ relationshipsProcessedCount' = relationshipsProcessedCount + 1
                   /\ pc \in {"itemHead", "converted", "recoverEnd"}
                   /\ k' = k + 1
          /\ (InConvertLoop /\ k' = k + 1)
                => relationshipsProcessedCount' = relationshipsProcessedCount + 1]_vars

\* The loops have run to their end over an item without an edit control and an
\* item that failed and was recovered from.
C27_Witness ==
    /\ LoopCompleted
    /\ NumItems = 2
    /\ editButton[1] = "null"
    /\ outcome[2] = "Failed"
    /\ recoveryClicks[2] = 1
    /\ relationshipsProcessedCount = 2

\* C28: a call of fixLinkOnNonURLPage for a row that holds a newLink makes no
\* lookup, clicks the edit control and leaves the stored pair as it is; removing
\* the row's a.url element removes both attributes, and the first call after a
\* removal makes a lookup; when a lookup fails, the edit control is not clicked,
\* the observer of that call is disconnected and the button is not left disabled.
C28_InlineReuseAndClear ==
    [][/\ (Len(observers') = Len(observers) + 1 /\ newLink # 0)
            => /\ lookupFor'[Len(lookupFor')] = 0
               /\ editItemClicks' = editItemClicks + 1
               /\ newLink' = newLink
               /\ oldLink' = oldLink
       /\ (urlElement /\ ~urlElement') => (oldLink' = 0 /\ newLink' = 0)
       /\ (Len(observers') = Len(observers) + 1 /\ cleared)
            => lookupFor'[Len(lookupFor')] # 0
       /\ \A t \in FixCalls :
            (lookupState[t] = "inflight" /\ lookupState'[t] = "rejected")
                => /\ editItemClicks' = editItemClicks
                   /\ ~observers'[t]
                   /\ fixerUpperButton' # "disabled"]_vars

\* C29: the wait for the marker ends; when it ends by its timeout, with no marker
\* seen, hasPendingEdits is false and fixLinkURLEdit is started by the automatic
\* click; it is started at no other step, at most once, and only for a URL input
\* that holds a Wikipedia URL.
C29_StartedOnceAfterGuard ==
    /\ [](runs <= 1)
    /\ [][runs' # runs
            => /\ runs' = 1
               /\ pc = "guardWait"
               /\ pendingMarker' # "shown"
               /\ ~hasPendingEdits'
               /\ urlInputExists
               /\ urlForm \in {"WikipediaArticle", "WikipediaOther"}
               /\ convertButton = "absent"
               /\ convertButton' = "disabled"]_vars
    /\ [][(pc = "guardWait" /\ pc' # "guardWait" /\ pendingMarker' # "shown")
            => (runs' = runs + 1 /\ ~hasPendingEdits')]_vars
    /\ (pc = "guardWait") ~> (pc # "guardWait")

\* The run was started after the wait had timed out on a marker not rendered yet.
C29_Witness ==
    /\ runs = 1
    /\ ~hasPendingEdits
    /\ pendingMarker = "hidden"
    /\ pc = "lookup"
====
